---- MODULE Spec2Model ----
(***************************************************************************)
(* Chat session state machine of client/src/components/ChatInterface.tsx   *)
(* (message store, optimistic send, world history pagination, world        *)
(* switching) together with ChatInput.tsx, the send callback of            *)
(* pages/Home.tsx and the proxy routes of server/routes.ts it talks to.    *)
(*                                                                         *)
(* React state lives in the variables named after the useState hooks.      *)
(* Every handler reads the values captured by the last render (its         *)
(* closure): these are kept in `view`.  A handler started by a discrete    *)
(* user event (click, Enter, select) is followed by a synchronous render;  *)
(* state written from a promise continuation, a timer or the native        *)
(* scroll listener is rendered later, by the separate step Render.         *)
(*                                                                         *)
(* A network call is issued by the handler that starts it and is in flight *)
(* until its continuation runs (…Resolve); the remote side answers from    *)
(* the data it holds at that moment.                                       *)
(***************************************************************************)
EXTENDS Integers, Sequences, FiniteSets, TLC

\* ------------------------------------------------------------------ bounds
MaxUserActions == 3  \* sends, world selections, delete clicks and refetches
                     \* of the worlds list in one run
MaxLoads == 2        \* initial world-history loads in flight together
MaxOlder == 2        \* older-page loads in flight together
PageSize == 2        \* items the remote returns per history page

\* ------------------------------------------------------- program constants
HistoryWindow == 10  \* history.slice(-10)

NoWorld == "default" \* selectedWorldId === null (Select value "default")
NoToken == 0         \* continuationToken === null
NoId == 0            \* azureMessageId === undefined / item.id missing
NoText == << >>      \* "" / undefined content
InitClock == 2       \* Date.now() when the chat is mounted
NoSettings == 0      \* worlds.find(...) === undefined: the world is not listed
ListedSettings == 1  \* the settings a world has in the first /api/worlds answer
EditedSettings == 2  \* its settings after an edit on the Worlds page
NoAction == ""       \* requestBody.action not set

Worlds == {"A", "B"}

Apology == <<"Sorry, I encountered an error. Please try again.">>
NoReply == <<"No reply received">>
ReplyText == <<"reply">>

Max(a, b) == IF a > b THEN a ELSE b
Min(a, b) == IF a < b THEN a ELSE b
Range(s) == {s[i] : i \in 1..Len(s)}

\* ------------------------------------------------------------- Message type
Message(role, content, timestamp, azureMessageId) ==
  [role |-> role, content |-> content, timestamp |-> timestamp,
   azureMessageId |-> azureMessageId]

\* initialMessages prop: the global history Home.tsx hands to the chat, five
\* exchanges
InitialMessages ==
  << Message("user", <<"q0">>, 1, NoId), Message("assistant", <<"a0">>, 1, NoId),
     Message("user", <<"q6">>, 1, NoId), Message("assistant", <<"a6">>, 1, NoId),
     Message("user", <<"q7">>, 1, NoId), Message("assistant", <<"a7">>, 1, NoId),
     Message("user", <<"q8">>, 1, NoId), Message("assistant", <<"a8">>, 1, NoId),
     Message("user", <<"q9">>, 1, NoId), Message("assistant", <<"a9">>, 1, NoId) >>

\* --------------------------------------------------------- remote history

\* a history item as the remote service returns it: each of the keys may be
\* missing (NoText, 0)
RawItem(id, CreatedUtc, createdUtc, text, input, ai, aiReply) ==
  [id |-> id, CreatedUtc |-> CreatedUtc, createdUtc |-> createdUtc,
   text |-> text, input |-> input, ai |-> ai, aiReply |-> aiReply]

\* an item in the naming input / aiReply / createdUtc
Item(id, createdUtc, input, aiReply) ==
  RawItem(id, 0, createdUtc, NoText, input, NoText, aiReply)

\* the world chats the remote service holds when the session starts; the
\* item of world B is in the naming text / ai / CreatedUtc
InitialRemote ==
  [w \in Worlds |->
     IF w = "A"
     THEN << Item(NoId, 1, <<"q1">>, <<"a1">>),
             Item(2, 1, <<"q2">>, <<"a2">>),
             Item(3, 2, <<"q3">>, <<"a3">>) >>
     ELSE << RawItem(5, 1, 0, <<"q5">>, NoText, <<"a5">>, NoText) >>]

VARIABLES
  now,               \* the last value Date.now() gave: it has moved on by one
                     \* whenever a handler makes a new turn
  messages,          \* useState<Message[]>
  isLoading,         \* useState(false)
  selectedWorldId,   \* useState<string | null>
  continuationToken, \* useState<string | null>
  isLoadingMore,     \* useState(false)
  hasMoreMessages,   \* useState(true)
  isInitialLoad,     \* useState(true)
  view,              \* the values captured by the last render
  remote,            \* world chats stored by the remote service
  chatReqs,          \* POST /api/chat calls in flight
  histReqs,          \* initial world-history loads in flight
  olderReqs,         \* older-page loads in flight
  timers,            \* setTimeout(() => loadInitialWorldHistory(..), 500)
  sent,              \* sends accepted so far
  switches,          \* world selections so far
  worldsData,        \* useQuery ["/api/worlds", ...]: the settings of each world
  deleteReqs,        \* DELETE /api/chat/world-message calls in flight
  others             \* delete clicks and refetches of the worlds list so far

\* the scroll container of the chat (ChatInterface.tsx:380)
VARIABLES
  scrollTop,         \* container.scrollTop
  scrollHeight,      \* container.scrollHeight
  pendingHeight,     \* height of the prepended turns React has not drawn yet
  scrollReqs,        \* older-page loads in flight, with the offsets they saved
  scrollTimers,      \* setTimeout(() => { container.scrollTop = .. }, 0)
  prepends           \* older-page loads started so far

\* the cache of the worlds list and the world mutations of the Worlds page
VARIABLES
  worldsCache,       \* queryClient data of ["/api/worlds", userId]
  serverWorlds,      \* the worlds the remote service holds
  mutations,         \* create, update and delete requests in flight
  worldsFetching,    \* a refetch of the worlds query is in flight
  worldOps           \* world mutations started so far

\* the sign-up and verification forms of the user panel
VARIABLES
  resendCooldown,    \* useState(0)
  authFlow,          \* useState: which form is shown
  panelLoading,      \* useState(false): isLoading of UserPanel
  panelView,         \* the values captured by the last render of UserPanel
  cooldownInterval,  \* cooldownIntervalRef.current holds a live interval
  authReqs,          \* sign-up, send-code and verify-code calls in flight
  reloadTimer        \* setTimeout(() => window.location.reload(), 1000)

chatVars == << now, messages, isLoading, selectedWorldId, continuationToken,
               isLoadingMore, hasMoreMessages, isInitialLoad, view, remote,
               chatReqs, histReqs, olderReqs, timers, sent, switches,
               worldsData, deleteReqs, others >>

scrollVars == << scrollTop, scrollHeight, pendingHeight, scrollReqs,
                 scrollTimers, prepends >>

worldsVars == << worldsCache, serverWorlds, mutations, worldsFetching, worldOps >>

panelVars == << resendCooldown, authFlow, panelLoading, panelView,
                cooldownInterval, authReqs, reloadTimer >>

vars == << chatVars, scrollVars, worldsVars, panelVars >>

\* ------------------------------------------------------------ pure helpers

\* String.prototype.trim on a text given as a sequence of characters
RECURSIVE TrimStart(_)
TrimStart(s) ==
  IF s # << >> /\ Head(s) = " " THEN TrimStart(Tail(s)) ELSE s

RECURSIVE TrimEnd(_)
TrimEnd(s) ==
  IF s # << >> /\ s[Len(s)] = " " THEN TrimEnd(SubSeq(s, 1, Len(s) - 1)) ELSE s

\* Trim that trims nothing
TrimNothing(s) == s

Trim(s) == TrimEnd(TrimStart(s))

\* InsertByTimestamp with the comparator's operands swapped (b - a)
RECURSIVE InsertByTimestampDescending(_, _)
InsertByTimestampDescending(s, m) ==
  IF s = << >> THEN << m >>
  ELSE IF s[Len(s)].timestamp >= m.timestamp THEN Append(s, m)
  ELSE Append(InsertByTimestampDescending(SubSeq(s, 1, Len(s) - 1), m), s[Len(s)])

\* one step of a stable sort: m goes after every element whose timestamp is <= its own
RECURSIVE InsertByTimestamp(_, _)
InsertByTimestamp(s, m) ==
  IF s = << >> THEN << m >>
  ELSE IF s[Len(s)].timestamp <= m.timestamp THEN Append(s, m)
  ELSE Append(InsertByTimestamp(SubSeq(s, 1, Len(s) - 1), m), s[Len(s)])

\* arr.sort((a, b) => a.timestamp.getTime() - b.timestamp.getTime()), a stable sort
RECURSIVE SortByTimestamp(_)
SortByTimestamp(s) ==
  IF s = << >> THEN << >>
  ELSE InsertByTimestamp(SortByTimestamp(SubSeq(s, 1, Len(s) - 1)), s[Len(s)])

\* data.items.forEach(...): one user and one assistant Message per item
RECURSIVE ItemsToMessages(_, _)
ItemsToMessages(items, clock) ==
  IF items = << >> THEN << >>
  ELSE LET item == Head(items)
           ts == IF item.createdUtc # 0 THEN item.createdUtc ELSE clock
           u == IF item.input # NoText
                THEN << Message("user", item.input, ts, item.id) >> ELSE << >>
           a == IF item.aiReply # NoText
                THEN << Message("assistant", item.aiReply, ts, item.id) >> ELSE << >>
       IN u \o a \o ItemsToMessages(Tail(items), clock)

\* MergeOlder without the filter on the ids already shown
MergeOlderUnfiltered(prev, olderMessages) ==
  SortByTimestamp(olderMessages \o prev)

\* the functional update of setMessages in loadOlderMessages
MergeOlder(prev, olderMessages) ==
  LET existingIds == {prev[i].azureMessageId : i \in 1..Len(prev)}
      newMessages == SelectSeq(olderMessages, LAMBDA m : m.azureMessageId \notin existingIds)
      combined == newMessages \o prev
  IN SortByTimestamp(combined)

\* RecentHistory without the slice
RecentHistoryAll(history) ==
  [i \in 1..Len(history) |->
     [role |-> history[i].role, content |-> history[i].content]]

\* history.slice(-10).map(msg => ({role, content}))
RecentHistory(history) ==
  LET n == Len(history)
      from == Max(1, n - HistoryWindow + 1)
  IN [i \in 1..(n - from + 1) |->
        [role |-> history[from + i - 1].role, content |-> history[from + i - 1].content]]

\* response.ai?.reply || response.reply || "No reply received"
ReplyContent(body) ==
  IF body.ai # NoText THEN body.ai
  ELSE IF body.reply # NoText THEN body.reply
  ELSE NoReply

\* ------------------------------------------------------------- the remote

Reverse(s) == [i \in 1..Len(s) |-> s[Len(s) - i + 1]]

\* the page of at most PageSize items that ends at position upto, newest first
RemotePage(hist, upto) ==
  LET hi == Min(upto, Len(hist))
      lo == Max(1, hi - PageSize + 1)
  IN Reverse(SubSeq(hist, lo, hi))

RemoteNextToken(hist, upto) ==
  LET hi == Min(upto, Len(hist))
  IN IF hi - PageSize > 0 THEN hi - PageSize ELSE NoToken

\* data.items.sort by createdUtc || 0 in the world-history route
RECURSIVE InsertByCreatedUtc(_, _)
InsertByCreatedUtc(s, it) ==
  IF s = << >> THEN << it >>
  ELSE IF s[Len(s)].createdUtc <= it.createdUtc THEN Append(s, it)
  ELSE Append(InsertByCreatedUtc(SubSeq(s, 1, Len(s) - 1), it), s[Len(s)])

RECURSIVE SortByCreatedUtc(_)
SortByCreatedUtc(s) ==
  IF s = << >> THEN << >>
  ELSE InsertByCreatedUtc(SortByCreatedUtc(SubSeq(s, 1, Len(s) - 1)), s[Len(s)])

\* data.items.map(item => ({...item, input: item.text || item.input,
\*                             aiReply: item.ai || item.aiReply}))
TransformItem(item) ==
  [item EXCEPT !.input = IF item.text # NoText THEN item.text ELSE item.input,
               !.aiReply = IF item.ai # NoText THEN item.ai ELSE item.aiReply]

TransformItems(items) == [i \in 1..Len(items) |-> TransformItem(items[i])]

\* A continuation token is opaque to the client.  The remote makes it from
\* the world it pages and the position in that world's history where the
\* next page ends; given a token, it pages from the position in it.
TokenBase == 100

WorldIndex(worldId) == IF worldId = "A" THEN 0 ELSE 1

IssuedToken(worldId, position) ==
  IF position = NoToken THEN NoToken ELSE WorldIndex(worldId) * TokenBase + position

TokenPosition(token) == token % TokenBase

\* the world whose history the token was issued for
TokenWorld(token) ==
  IF token = NoToken THEN NoWorld
  ELSE IF token \div TokenBase = 0 THEN "A" ELSE "B"

\* POST /api/chat/world-history: the body the proxy answers with
WorldHistoryBody(hist, token) ==
  LET upto == IF token = NoToken THEN Len(hist) ELSE TokenPosition(token)
  IN [items |-> SortByCreatedUtc(TransformItems(RemotePage(hist, upto))),
      continuationToken |-> RemoteNextToken(hist, upto)]

\* -------------------------------------------------------------- rendering

Snapshot(msgs, loading, token, loadingMore, hasMore, initialLoad, worlds) ==
  [messages |-> msgs, isLoading |-> loading, continuationToken |-> token,
   isLoadingMore |-> loadingMore, hasMoreMessages |-> hasMore,
   isInitialLoad |-> initialLoad, worlds |-> worlds]

Current ==
  Snapshot(messages, isLoading, continuationToken, isLoadingMore,
           hasMoreMessages, isInitialLoad, worldsData)

\* sends, world selections, delete clicks and worlds refetches so far
UserActions == sent + switches + others

TypeOK ==
  /\ now \in InitClock..(InitClock + 2 * MaxUserActions)
  /\ isLoading \in BOOLEAN
  /\ selectedWorldId \in Worlds \cup {NoWorld}

ChatInit ==
  /\ now = InitClock
  /\ messages = InitialMessages
  /\ isLoading = FALSE
  /\ selectedWorldId = NoWorld
  /\ continuationToken = NoToken
  /\ isLoadingMore = FALSE
  /\ hasMoreMessages = TRUE
  /\ isInitialLoad = FALSE
  /\ worldsData = [w \in Worlds |-> ListedSettings]
  /\ view = Snapshot(InitialMessages, FALSE, NoToken, FALSE, TRUE, FALSE, worldsData)
  /\ remote = InitialRemote
  /\ chatReqs = {}
  /\ histReqs = {}
  /\ olderReqs = {}
  /\ timers = {}
  /\ sent = 0
  /\ switches = 0
  /\ deleteReqs = {}
  /\ others = 0

\* ---------------------------------------------- scroll container: state

\* older-page loads one run starts
MaxPrepends == 2

\* the height of the visible part of the container
ClientHeight == 600

\* the scroll listener loads older turns within 200px of the top
ScrollThreshold == 200

\* heights of the list when the container is mounted, heights a page of
\* older turns adds to it, and offsets the user scrolls to
InitialScrollHeights == {1000, 1200}
PageHeights == {0, 200, 400}
ScrollOffsets == {0, 50, 150, 400, 800}

\* the browser keeps scrollTop within 0 .. scrollHeight - clientHeight
ClampScrollTop(top, height) == Max(0, Min(top, height - ClientHeight))

\* the list as the container shows it when the user starts to scroll
ScrollInputs ==
  /\ scrollHeight \in InitialScrollHeights
  /\ scrollTop \in {ClampScrollTop(top, scrollHeight) : top \in ScrollOffsets}
  /\ pendingHeight = 0
  /\ scrollReqs = {}
  /\ scrollTimers = {}
  /\ prepends = 0

ScrollAtRest ==
  /\ scrollHeight = ClientHeight
  /\ scrollTop = 0
  /\ pendingHeight = 0
  /\ scrollReqs = {}
  /\ scrollTimers = {}
  /\ prepends = 0

\* ------------------------------------------------------ Worlds page: state

\* create, update and delete clicks one run makes
MaxWorldOps == 3

\* the worlds list as the function from a world to its settings, NoSettings
\* for a world that is not in the list
WorldLists == [Worlds -> {NoSettings, ListedSettings, EditedSettings}]

\* the list is loaded: the cache holds what the remote service holds
WorldsLoaded ==
  /\ serverWorlds \in [Worlds -> {NoSettings, ListedSettings}]
  /\ worldsCache = serverWorlds
  /\ mutations = {}
  /\ worldsFetching = FALSE
  /\ worldOps = 0

WorldsAtRest ==
  /\ serverWorlds = [w \in Worlds |-> ListedSettings]
  /\ worldsCache = serverWorlds
  /\ mutations = {}
  /\ worldsFetching = FALSE
  /\ worldOps = 0

\* ------------------------------------------------------- user panel: state

\* const cooldown = data.resendCooldownSecs || 60
DefaultCooldown == 60

\* the largest resendCooldownSecs the remote service answers with
MaxReturnedCooldown == 3

PanelSnapshot(cooldown, flow, loading) ==
  [resendCooldown |-> cooldown, authFlow |-> flow, isLoading |-> loading]

PanelCurrent == PanelSnapshot(resendCooldown, authFlow, panelLoading)

PanelAtRest ==
  /\ resendCooldown = 0
  /\ authFlow = "login"
  /\ panelLoading = FALSE
  /\ panelView = PanelSnapshot(0, "login", FALSE)
  /\ cooldownInterval = FALSE
  /\ authReqs = {}
  /\ reloadTimer = FALSE

\* the chat is mounted with its container at the top, the worlds list
\* loaded, and the user panel on the login form
Init == ChatInit /\ ScrollAtRest /\ WorldsAtRest /\ PanelAtRest

\* the chat at rest, its list being scrolled
ScrollInit == ChatInit /\ ScrollInputs /\ WorldsAtRest /\ PanelAtRest

\* the chat at rest, the Worlds page open
WorldsInit == ChatInit /\ ScrollAtRest /\ WorldsLoaded /\ PanelAtRest

\* the chat at rest, the user panel open
PanelInit == ChatInit /\ ScrollAtRest /\ WorldsAtRest /\ PanelAtRest

\* React commits the pending state: the next handlers close over it
Render ==
  /\ view # Current
  /\ view' = Current
  /\ UNCHANGED << now, messages, isLoading, selectedWorldId, continuationToken,
                  isLoadingMore, hasMoreMessages, isInitialLoad, remote,
                  chatReqs, histReqs, olderReqs, timers, sent, switches,
                  worldsData, deleteReqs, others >>

\* ------------------------------------------------------------- world load

\* a name for a new call in flight, unused among the calls `reqs`
FreshN(reqs) == CHOOSE n \in 1..(Cardinality(reqs) + 1) : \A r \in reqs : r.n # n

\* loadInitialWorldHistory(worldId) up to its await: the request leaves.
\* caller is the call site: "effect" (the effect on the active world id) or
\* "send" (the timer handleSend sets)
StartInitialLoad(worldId, caller) ==
  /\ Cardinality(histReqs) < MaxLoads
  /\ isInitialLoad' = TRUE
  /\ histReqs' = histReqs \cup
       {[n |-> FreshN(histReqs), world |-> worldId, caller |-> caller]}

\* the Select's onValueChange on one of the items of the last render
\* (the default and the worlds listed), the render it causes and the two
\* effects on the active world id
SelectWorld(value) ==
  /\ UserActions < MaxUserActions
  /\ value # selectedWorldId
  /\ value # NoWorld => view.worlds[value] # NoSettings
  /\ switches' = switches + 1
  /\ selectedWorldId' = value
  /\ IF value # NoWorld
     THEN /\ StartInitialLoad(value, "effect")
          /\ UNCHANGED messages
     ELSE /\ messages' = InitialMessages
          /\ isInitialLoad' = FALSE
          /\ UNCHANGED histReqs
  /\ view' = Snapshot(messages', isLoading, continuationToken, isLoadingMore,
                      hasMoreMessages, isInitialLoad', worldsData)
  /\ UNCHANGED << now, isLoading, continuationToken, isLoadingMore,
                  hasMoreMessages, remote, chatReqs, olderReqs, timers, sent,
                  worldsData, deleteReqs, others >>

\* loadInitialWorldHistory after its await, the fetch answered with a page
HistResolveOk(req) ==
  LET data == WorldHistoryBody(remote[req.world], NoToken)
  IN /\ messages' = SortByTimestamp(ItemsToMessages(data.items, now))
     /\ continuationToken' = IssuedToken(req.world, data.continuationToken)
     /\ hasMoreMessages' = (data.continuationToken # NoToken)

\* loadInitialWorldHistory after its await: try / catch / finally
HistResolve(req) ==
  /\ req \in histReqs
  /\ histReqs' = histReqs \ {req}
  /\ \/ HistResolveOk(req)
     \/ UNCHANGED << messages, continuationToken, hasMoreMessages >>
  /\ isInitialLoad' = FALSE
  /\ UNCHANGED << now, isLoading, selectedWorldId, isLoadingMore, view, remote,
                  chatReqs, olderReqs, timers, sent, switches, worldsData,
                  deleteReqs, others >>

\* ------------------------------------------------------------ older pages

\* the guard of handleScroll and of loadOlderMessages, on the values the
\* listener closed over
MayLoadOlder ==
  /\ selectedWorldId # NoWorld
  /\ ~view.isInitialLoad
  /\ view.hasMoreMessages
  /\ ~view.isLoadingMore
  /\ view.continuationToken # NoToken

\* a scroll event near the top: handleScroll of the listener the last render
\* attached, then loadOlderMessages up to its await
Scroll ==
  /\ Cardinality(olderReqs) < MaxOlder
  /\ IF MayLoadOlder
     THEN /\ isLoadingMore' = TRUE
          /\ olderReqs' = olderReqs \cup
               {[n |-> FreshN(olderReqs), world |-> selectedWorldId,
                 token |-> view.continuationToken]}
     ELSE UNCHANGED << isLoadingMore, olderReqs >>
  /\ UNCHANGED << now, messages, isLoading, selectedWorldId, continuationToken,
                  hasMoreMessages, isInitialLoad, view, remote, chatReqs,
                  histReqs, timers, sent, switches, worldsData, deleteReqs,
                  others >>

\* the Message list loadOlderMessages builds from the page it asked for
OlderMessages(req) ==
  SortByTimestamp(ItemsToMessages(WorldHistoryBody(remote[req.world], req.token).items, now))

\* loadOlderMessages after its await, the fetch answered with a page
OlderResolveOk(req) ==
  LET data == WorldHistoryBody(remote[req.world], req.token)
  IN /\ messages' = MergeOlder(messages, OlderMessages(req))
     /\ continuationToken' = IssuedToken(req.world, data.continuationToken)
     /\ hasMoreMessages' = (data.continuationToken # NoToken)

\* loadOlderMessages after its await, the fetch threw or answered non-2xx:
\* the catch block only logs
OlderResolveError(req) ==
  UNCHANGED << messages, continuationToken, hasMoreMessages >>

\* OlderResolve without the finally block
OlderResolveNoFinally(req) ==
  /\ req \in olderReqs
  /\ olderReqs' = olderReqs \ {req}
  /\ \/ OlderResolveOk(req)
     \/ OlderResolveError(req)
  /\ UNCHANGED << now, isLoading, selectedWorldId, isInitialLoad, view, remote,
                  chatReqs, histReqs, timers, sent, switches, worldsData,
                  deleteReqs, others, isLoadingMore >>

\* loadOlderMessages after its await: try / catch / finally
OlderResolve(req) ==
  /\ req \in olderReqs
  /\ olderReqs' = olderReqs \ {req}
  /\ \/ OlderResolveOk(req)
     \/ OlderResolveError(req)
  /\ isLoadingMore' = FALSE
  /\ UNCHANGED << now, isLoading, selectedWorldId, isInitialLoad, view, remote,
                  chatReqs, histReqs, timers, sent, switches, worldsData,
                  deleteReqs, others >>

\* ------------------------------------------------------------------- send

\* the texts typed into the input
Inputs == { << >>, << " " >>, << " ", "hi", " " >> }

\* the bodies POST /api/chat answers with a 2xx status
ChatBodies ==
  { [ok |-> TRUE, ai |-> ReplyText, reply |-> NoText],
    [ok |-> FALSE, ai |-> NoText, reply |-> NoText] }

\* the id the remote gives the record of the n-th send
RecordId(n) == 10 + n

\* MaySend without the test of the disabled prop
MaySendWhileDisabled(input) == Trim(input) # NoText

\* the guard of ChatInput.handleSend: message.trim() && !disabled
MaySend(input) == Trim(input) # NoText /\ ~view.isLoading

\* SelectedWorld reading the query cache instead of the worlds of the last
\* render
SelectedWorldLive ==
  IF selectedWorldId # NoWorld THEN worldsData[selectedWorldId] ELSE NoSettings

\* selectedWorld: worlds.find((w) => w.id === selectedWorldId) on the worlds
\* of the last render, as the settings it found
SelectedWorld ==
  IF selectedWorldId # NoWorld THEN view.worlds[selectedWorldId] ELSE NoSettings

\* worldSettings === undefined
NoWorldSettings == [worldId |-> NoWorld, settings |-> NoSettings]

\* const worldSettings = selectedWorld ? { worldId, model, ... } : undefined
WorldSettings ==
  IF SelectedWorld # NoSettings
  THEN [worldId |-> selectedWorldId, settings |-> SelectedWorld]
  ELSE NoWorldSettings

\* requestBody of POST /api/chat, the body the proxy sends on
ChatRequestBody(message, history, worldSettings) ==
  [text |-> message, history |-> history,
   action |-> IF worldSettings # NoWorldSettings THEN "addworldchat" ELSE NoAction,
   worldId |-> worldSettings.worldId,
   settings |-> worldSettings.settings]

\* ChatInterface.handleSend up to its await, with Home.handleSendMessage up to
\* its fetch
HandleSend(content) ==
  LET userMessage == Message("user", content, now + 1, NoId)
      updatedMessages == Append(view.messages, userMessage)
  IN /\ now' = now + 1
     /\ messages' = updatedMessages
     /\ isLoading' = TRUE
     /\ chatReqs' = chatReqs \cup
          {[n |-> sent + 1, world |-> selectedWorldId,
            worldSettings |-> WorldSettings, message |-> content,
            updatedMessages |-> updatedMessages,
            history |-> RecentHistory(updatedMessages),
            requestBody |-> ChatRequestBody(content, RecentHistory(updatedMessages),
                                            WorldSettings)]}
     /\ sent' = sent + 1

\* ChatInput.handleSend (button click or Enter) and the render that follows
PressSend(input) ==
  /\ UserActions < MaxUserActions
  /\ IF MaySend(input)
     THEN /\ HandleSend(Trim(input))
          /\ view' = Snapshot(messages', isLoading', continuationToken,
                              isLoadingMore, hasMoreMessages, isInitialLoad,
                              worldsData)
     ELSE UNCHANGED << now, messages, isLoading, chatReqs, sent, view >>
  /\ UNCHANGED << selectedWorldId, continuationToken, isLoadingMore,
                  hasMoreMessages, isInitialLoad, remote, histReqs, olderReqs,
                  timers, switches, worldsData, deleteReqs, others >>

\* setTimeout(() => loadInitialWorldHistory(activeWorldId), 500) of the send
\* req, when the world it was sent in is not the default one
ScheduleReload(req) ==
  IF req.world # NoWorld
  THEN timers \cup {[n |-> req.n, world |-> req.world]}
  ELSE timers

\* handleSend after its await, onSendMessage resolved with a 2xx body; the
\* remote has stored a world turn it answered
ChatResolveOk(req, body) ==
  /\ messages' = Append(messages, Message("assistant", ReplyContent(body), now + 1, NoId))
  /\ timers' = ScheduleReload(req)
  /\ remote' = IF body.ok /\ req.requestBody.action = "addworldchat"
               THEN [remote EXCEPT ![req.requestBody.worldId] =
                       Append(@, RawItem(RecordId(req.n), 0, now, req.requestBody.text,
                                         NoText, body.ai, NoText))]
               ELSE remote

\* handleSend after its await, onSendMessage rejected (network error, non-2xx
\* status, empty or unparseable body): the catch block
ChatResolveError(req) ==
  /\ messages' = Append(messages, Message("assistant", Apology, now + 1, NoId))
  /\ UNCHANGED << timers, remote >>

\* ChatResolve without the finally block
ChatResolveNoFinally(req) ==
  /\ req \in chatReqs
  /\ chatReqs' = chatReqs \ {req}
  /\ \/ \E body \in ChatBodies : ChatResolveOk(req, body)
     \/ ChatResolveError(req)
  /\ now' = now + 1
  /\ UNCHANGED << isLoading, selectedWorldId, continuationToken, isLoadingMore,
                  hasMoreMessages, isInitialLoad, view, histReqs,
                  olderReqs, sent, switches, worldsData, deleteReqs, others >>

\* ChatInterface.handleSend after its await: try / catch / finally
ChatResolve(req) ==
  /\ req \in chatReqs
  /\ chatReqs' = chatReqs \ {req}
  /\ \/ \E body \in ChatBodies : ChatResolveOk(req, body)
     \/ ChatResolveError(req)
  /\ now' = now + 1
  /\ isLoading' = FALSE
  /\ UNCHANGED << selectedWorldId, continuationToken, isLoadingMore,
                  hasMoreMessages, isInitialLoad, view, histReqs,
                  olderReqs, sent, switches, worldsData, deleteReqs, others >>

\* the 500 ms timer set after a world send fires: the history is loaded again
ReloadTimer(t) ==
  /\ t \in timers
  /\ timers' = timers \ {t}
  /\ StartInitialLoad(t.world, "send")
  /\ UNCHANGED << now, messages, isLoading, selectedWorldId, continuationToken,
                  isLoadingMore, hasMoreMessages, view, remote, chatReqs,
                  olderReqs, sent, switches, worldsData, deleteReqs, others >>

\* ------------------------------------------------------------ worlds list

\* the worlds query is fetched again (invalidateQueries of the Worlds page
\* mutations, refetch on focus): the world w comes back edited, or is no
\* longer listed
WorldsRefetch(w, settings) ==
  /\ UserActions < MaxUserActions
  /\ worldsData[w] # settings
  /\ worldsData' = [worldsData EXCEPT ![w] = settings]
  /\ others' = others + 1
  /\ UNCHANGED << now, messages, isLoading, selectedWorldId, continuationToken,
                  isLoadingMore, hasMoreMessages, isInitialLoad, view, remote,
                  chatReqs, histReqs, olderReqs, timers, sent, switches,
                  deleteReqs >>

\* ----------------------------------------------------------------- delete

\* canDelete of ChatMessage: worldId && message.azureMessageId && onDelete
CanDelete(m) == selectedWorldId # NoWorld /\ m.azureMessageId # NoId

\* ChatMessage.handleDelete on a turn that is displayed, confirmed by the
\* user, then onDelete up to its await
PressDelete(m) ==
  /\ UserActions < MaxUserActions
  /\ m \in Range(view.messages)
  /\ IF CanDelete(m)
     THEN /\ deleteReqs' = deleteReqs \cup
               {[n |-> FreshN(deleteReqs), world |-> selectedWorldId,
                 messageId |-> m.azureMessageId]}
          /\ others' = others + 1
     ELSE UNCHANGED << deleteReqs, others >>
  /\ UNCHANGED << now, messages, isLoading, selectedWorldId, continuationToken,
                  isLoadingMore, hasMoreMessages, isInitialLoad, view, remote,
                  chatReqs, histReqs, olderReqs, timers, sent, switches,
                  worldsData >>

\* the remote deleted the record, the proxy answers 2xx: the history is
\* loaded again
DeleteResolveDeleted(req) ==
  /\ remote' = [remote EXCEPT ![req.world] =
                  SelectSeq(@, LAMBDA item : item.id # req.messageId)]
  /\ StartInitialLoad(req.world, "delete")

\* the remote answered 2xx without deleting (an error payload the proxy
\* passes on with res.json(data)): response.ok holds all the same
DeleteResolveRefused(req) ==
  /\ UNCHANGED remote
  /\ StartInitialLoad(req.world, "delete")

\* the proxy answered 4xx / 5xx, or the fetch threw
DeleteResolveError(req) ==
  UNCHANGED << remote, histReqs, isInitialLoad >>

\* onDelete after its await
DeleteResolve(req) ==
  /\ req \in deleteReqs
  /\ deleteReqs' = deleteReqs \ {req}
  /\ \/ DeleteResolveDeleted(req)
     \/ DeleteResolveRefused(req)
     \/ DeleteResolveError(req)
  /\ UNCHANGED << now, messages, isLoading, selectedWorldId, continuationToken,
                  isLoadingMore, hasMoreMessages, view, chatReqs, olderReqs,
                  timers, sent, switches, worldsData, others >>

Next ==
  \/ Render
       /\ UNCHANGED << scrollVars, worldsVars, panelVars >>
  \/ \E value \in Worlds \cup {NoWorld} : SelectWorld(value)
       /\ UNCHANGED << scrollVars, worldsVars, panelVars >>
  \/ \E req \in histReqs : HistResolve(req)
       /\ UNCHANGED << scrollVars, worldsVars, panelVars >>
  \/ Scroll
       /\ UNCHANGED << scrollVars, worldsVars, panelVars >>
  \/ \E req \in olderReqs : OlderResolve(req)
       /\ UNCHANGED << scrollVars, worldsVars, panelVars >>
  \/ \E input \in Inputs : PressSend(input)
       /\ UNCHANGED << scrollVars, worldsVars, panelVars >>
  \/ \E req \in chatReqs : ChatResolve(req)
       /\ UNCHANGED << scrollVars, worldsVars, panelVars >>
  \/ \E t \in timers : ReloadTimer(t)
       /\ UNCHANGED << scrollVars, worldsVars, panelVars >>
  \/ \E w \in Worlds, settings \in {NoSettings, EditedSettings} : WorldsRefetch(w, settings)
       /\ UNCHANGED << scrollVars, worldsVars, panelVars >>
  \/ \E m \in Range(view.messages) : PressDelete(m)
       /\ UNCHANGED << scrollVars, worldsVars, panelVars >>
  \/ \E req \in deleteReqs : DeleteResolve(req)
       /\ UNCHANGED << scrollVars, worldsVars, panelVars >>

Spec == Init /\ [][Next]_vars

\* React commits a scheduled state update: a pending render is not put off
\* for ever.  Nothing makes the network answer: no fairness on ChatResolve
\* (no timeout, no cancellation in handleSend).
FairSpec ==
  Spec /\ WF_vars(Render /\ UNCHANGED << scrollVars, worldsVars, panelVars >>)

\* -------------------------------------------- scroll container: operations

\* the user scrolls the list to an offset
UserScroll(top) ==
  /\ scrollTop' = ClampScrollTop(top, scrollHeight)
  /\ scrollTop' # scrollTop
  /\ UNCHANGED << scrollHeight, pendingHeight, scrollReqs, scrollTimers, prepends >>

\* handleScroll near the top: loadOlderMessages saves the offsets of the
\* container before it fetches
SaveScrollPosition ==
  /\ prepends < MaxPrepends
  /\ scrollReqs = {}
  /\ scrollTop < ScrollThreshold
  /\ scrollReqs' = {[oldScrollHeight |-> scrollHeight, oldScrollTop |-> scrollTop]}
  /\ prepends' = prepends + 1
  /\ UNCHANGED << scrollTop, scrollHeight, pendingHeight, scrollTimers >>

\* container.scrollTop = newScrollHeight - oldScrollHeight + oldScrollTop,
\* without the old offset
RestoredScrollTopNoOffset(newScrollHeight, oldScrollHeight, oldScrollTop) ==
  newScrollHeight - oldScrollHeight

\* container.scrollTop = newScrollHeight - oldScrollHeight + oldScrollTop
RestoredScrollTop(newScrollHeight, oldScrollHeight, oldScrollTop) ==
  newScrollHeight - oldScrollHeight + oldScrollTop

\* the older page arrives: its turns are put into the store, to be drawn by
\* the next render, and the restoring timer is set
PrependOlder(req, height) ==
  /\ scrollReqs' = scrollReqs \ {req}
  /\ pendingHeight' = pendingHeight + height
  /\ scrollTimers' = scrollTimers \cup {req}
  /\ UNCHANGED << scrollTop, scrollHeight, prepends >>

\* the fetch fails: nothing is prepended, no timer is set
PrependFails(req) ==
  /\ scrollReqs' = scrollReqs \ {req}
  /\ UNCHANGED << scrollTop, scrollHeight, pendingHeight, scrollTimers, prepends >>

\* React draws the prepended turns above the ones shown: the list grows,
\* and the browser either keeps scrollTop or anchors the view to the turn
\* that was at the top
DrawPrepended(anchored) ==
  /\ pendingHeight > 0
  /\ scrollHeight' = scrollHeight + pendingHeight
  /\ scrollTop' = IF anchored THEN ClampScrollTop(scrollTop + pendingHeight, scrollHeight')
                               ELSE scrollTop
  /\ pendingHeight' = 0
  /\ UNCHANGED << scrollReqs, scrollTimers, prepends >>

\* the timer of loadOlderMessages fires
RestoreScroll(t) ==
  /\ scrollTimers' = scrollTimers \ {t}
  /\ scrollTop' = ClampScrollTop(
                     RestoredScrollTop(scrollHeight, t.oldScrollHeight, t.oldScrollTop),
                     scrollHeight)
  /\ UNCHANGED << scrollHeight, pendingHeight, scrollReqs, prepends >>

ScrollNext ==
  \/ \E top \in ScrollOffsets : UserScroll(top)
       /\ UNCHANGED << chatVars, worldsVars, panelVars >>
  \/ SaveScrollPosition
       /\ UNCHANGED << chatVars, worldsVars, panelVars >>
  \/ \E req \in scrollReqs, height \in PageHeights : PrependOlder(req, height)
       /\ UNCHANGED << chatVars, worldsVars, panelVars >>
  \/ \E req \in scrollReqs : PrependFails(req)
       /\ UNCHANGED << chatVars, worldsVars, panelVars >>
  \/ \E anchored \in BOOLEAN : DrawPrepended(anchored)
       /\ UNCHANGED << chatVars, worldsVars, panelVars >>
  \/ \E t \in scrollTimers : RestoreScroll(t)
       /\ UNCHANGED << chatVars, worldsVars, panelVars >>

ScrollSpec == ScrollInit /\ [][ScrollNext]_vars

\* --------------------------------------------------- Worlds page: operations

MutationRequest(kind, id, data, previousWorlds) ==
  [kind |-> kind, id |-> id, data |-> data, previousWorlds |-> previousWorlds]

\* the submit button of the dialog is disabled while a create or an update
\* is pending
SubmitPending == \E req \in mutations : req.kind \in {"create", "update"}

\* queryClient.invalidateQueries: the worlds query is fetched again
InvalidateWorlds == worldsFetching' = TRUE

\* handleCreate: createMutation.mutate
CreateMutate(id) ==
  /\ worldOps < MaxWorldOps
  /\ ~SubmitPending
  /\ worldsCache[id] = NoSettings
  /\ mutations' = mutations \cup {MutationRequest("create", id, ListedSettings, worldsCache)}
  /\ worldOps' = worldOps + 1
  /\ UNCHANGED << worldsCache, serverWorlds, worldsFetching >>

\* the create request is answered: onSuccess invalidates, onError toasts
CreateSettle(req, ok) ==
  /\ req.kind = "create"
  /\ mutations' = mutations \ {req}
  /\ IF ok
       THEN /\ serverWorlds' = [serverWorlds EXCEPT ![req.id] = req.data]
            /\ InvalidateWorlds
       ELSE UNCHANGED << serverWorlds, worldsFetching >>
  /\ UNCHANGED << worldsCache, worldOps >>

\* the optimistic write of onMutate: the world with the id takes the data
OptimisticWorlds(old, id, data) ==
  [w \in Worlds |-> IF w = id /\ old[w] # NoSettings THEN data ELSE old[w]]

\* handleUpdate: updateMutation.mutate, then onMutate: the refetch in flight
\* is cancelled, the list is saved, the cache is written
UpdateMutate(id, data) ==
  /\ worldOps < MaxWorldOps
  /\ ~SubmitPending
  /\ worldsCache[id] # NoSettings
  /\ worldsFetching' = FALSE
  /\ mutations' = mutations \cup {MutationRequest("update", id, data, worldsCache)}
  /\ worldsCache' = OptimisticWorlds(worldsCache, id, data)
  /\ worldOps' = worldOps + 1
  /\ UNCHANGED serverWorlds

\* the update is answered with success, whether or not the remote service
\* has stored the edit: onSuccess invalidates
UpdateSuccess(req, stored) ==
  /\ req.kind = "update"
  /\ serverWorlds[req.id] # NoSettings
  /\ mutations' = mutations \ {req}
  /\ serverWorlds' = IF stored THEN [serverWorlds EXCEPT ![req.id] = req.data]
                                ELSE serverWorlds
  /\ InvalidateWorlds
  /\ UNCHANGED << worldsCache, worldOps >>

\* the update fails: onError writes the saved list back
UpdateError(req) ==
  /\ req.kind = "update"
  /\ mutations' = mutations \ {req}
  /\ worldsCache' = req.previousWorlds
  /\ UNCHANGED << serverWorlds, worldsFetching, worldOps >>

\* handleDelete: deleteMutation.mutate
DeleteMutate(id) ==
  /\ worldOps < MaxWorldOps
  /\ worldsCache[id] # NoSettings
  /\ \A req \in mutations : ~(req.kind = "delete" /\ req.id = id)
  /\ mutations' = mutations \cup {MutationRequest("delete", id, NoSettings, worldsCache)}
  /\ worldOps' = worldOps + 1
  /\ UNCHANGED << worldsCache, serverWorlds, worldsFetching >>

\* the delete request is answered: onSuccess invalidates, onError toasts
DeleteSettle(req, ok) ==
  /\ req.kind = "delete"
  /\ mutations' = mutations \ {req}
  /\ IF ok
       THEN /\ serverWorlds' = [serverWorlds EXCEPT ![req.id] = NoSettings]
            /\ InvalidateWorlds
       ELSE UNCHANGED << serverWorlds, worldsFetching >>
  /\ UNCHANGED << worldsCache, worldOps >>

\* the refetch of the worlds query is answered: the cache takes the list of
\* the remote service, or keeps its data when the fetch fails
WorldsQuerySettle(ok) ==
  /\ worldsFetching
  /\ worldsFetching' = FALSE
  /\ worldsCache' = IF ok THEN serverWorlds ELSE worldsCache
  /\ UNCHANGED << serverWorlds, mutations, worldOps >>

WorldsNext ==
  \/ \E id \in Worlds : CreateMutate(id)
       /\ UNCHANGED << chatVars, scrollVars, panelVars >>
  \/ \E req \in mutations, ok \in BOOLEAN : CreateSettle(req, ok)
       /\ UNCHANGED << chatVars, scrollVars, panelVars >>
  \/ \E id \in Worlds, data \in {ListedSettings, EditedSettings} : UpdateMutate(id, data)
       /\ UNCHANGED << chatVars, scrollVars, panelVars >>
  \/ \E req \in mutations, stored \in BOOLEAN : UpdateSuccess(req, stored)
       /\ UNCHANGED << chatVars, scrollVars, panelVars >>
  \/ \E req \in mutations : UpdateError(req)
       /\ UNCHANGED << chatVars, scrollVars, panelVars >>
  \/ \E id \in Worlds : DeleteMutate(id)
       /\ UNCHANGED << chatVars, scrollVars, panelVars >>
  \/ \E req \in mutations, ok \in BOOLEAN : DeleteSettle(req, ok)
       /\ UNCHANGED << chatVars, scrollVars, panelVars >>
  \/ \E ok \in BOOLEAN : WorldsQuerySettle(ok)
       /\ UNCHANGED << chatVars, scrollVars, panelVars >>

WorldsSpec == WorldsInit /\ [][WorldsNext]_vars

\* ---------------------------------------------------- user panel: operations

\* resendCooldownSecs in the answers of the remote service; 0 stands for an
\* answer without the field as well
ReturnedCooldowns == 0..MaxReturnedCooldown

\* data.resendCooldownSecs || 60
ResendCooldownOf(secs) == IF secs = 0 THEN DefaultCooldown ELSE secs

AuthRequest(kind, caller) == [kind |-> kind, caller |-> caller]

\* the cooldown effect, run by a render in which resendCooldown has changed:
\* its cleanup clears the interval, and it sets one if the cooldown is above 0
CooldownEffect(rendered, cooldown, interval) ==
  IF cooldown # rendered THEN cooldown > 0 ELSE interval

\* React commits the pending state of the panel and runs the cooldown effect
PanelRender ==
  /\ panelView # PanelCurrent
  /\ panelView' = PanelCurrent
  /\ cooldownInterval' = CooldownEffect(panelView.resendCooldown, resendCooldown,
                                        cooldownInterval)
  /\ UNCHANGED << resendCooldown, authFlow, panelLoading, authReqs, reloadTimer >>

\* a click is rendered before the next event: the state the handler has set
\* is committed together with whatever was pending
PanelCommit(interval) ==
  /\ panelView' = PanelSnapshot(resendCooldown', authFlow', panelLoading')
  /\ cooldownInterval' = CooldownEffect(panelView.resendCooldown, resendCooldown',
                                        interval)

\* the link under the form switches between login and sign-up
ToggleMode ==
  /\ panelView.authFlow \in {"login", "signup"}
  /\ ~panelView.isLoading
  /\ authFlow' = IF panelView.authFlow = "login" THEN "signup" ELSE "login"
  /\ UNCHANGED << resendCooldown, panelLoading, authReqs, reloadTimer >>
  /\ PanelCommit(cooldownInterval)

\* a form is submitted: handleLogin, handleSignup or handleVerifyCode, up
\* to its fetch
PressSubmit(flow, kind) ==
  /\ panelView.authFlow = flow
  /\ ~panelView.isLoading
  /\ panelLoading' = TRUE
  /\ authReqs' = authReqs \cup {AuthRequest(kind, kind)}
  /\ UNCHANGED << resendCooldown, authFlow, reloadTimer >>
  /\ PanelCommit(cooldownInterval)

\* handleLogin and handleVerifyCode after the fetch: a success stores the
\* user and reloads the page a second later
SubmitResolve(req, ok) ==
  /\ req.kind \in {"login", "verify"}
  /\ authReqs' = authReqs \ {req}
  /\ reloadTimer' = (reloadTimer \/ ok)
  /\ panelLoading' = FALSE
  /\ UNCHANGED << resendCooldown, authFlow, panelView, cooldownInterval >>

\* handleSignup after the fetch: a created account goes on to handleSendCode
SignupResolve(req, ok) ==
  /\ req.kind = "signup"
  /\ IF ok
       THEN /\ authReqs' = (authReqs \ {req}) \cup {AuthRequest("sendcode", "signup")}
            /\ UNCHANGED panelLoading
       ELSE /\ authReqs' = authReqs \ {req}
            /\ panelLoading' = FALSE
  /\ UNCHANGED << resendCooldown, authFlow, panelView, cooldownInterval, reloadTimer >>

\* handleSendCode after the fetch, then the rest of its caller: handleSignup
\* goes to the verification form whatever the outcome
SendCodeResolve(req, ok, secs) ==
  /\ req.kind = "sendcode"
  /\ authReqs' = authReqs \ {req}
  /\ resendCooldown' = IF ok THEN ResendCooldownOf(secs) ELSE resendCooldown
  /\ authFlow' = IF req.caller = "signup" THEN "verifying" ELSE authFlow
  /\ panelLoading' = FALSE
  /\ UNCHANGED << panelView, cooldownInterval, reloadTimer >>

\* the resend button is enabled, and handleResendCode goes on, whatever
\* the cooldown
MayResendDuringCooldown ==
  /\ panelView.authFlow = "verifying"
  /\ ~panelView.isLoading

\* the resend button is enabled, and handleResendCode goes on
MayResend ==
  /\ panelView.authFlow = "verifying"
  /\ ~panelView.isLoading
  /\ ~(panelView.resendCooldown > 0)

\* handleResendCode up to the fetch of handleSendCode
PressResend ==
  /\ MayResend
  /\ panelLoading' = TRUE
  /\ authReqs' = authReqs \cup {AuthRequest("sendcode", "resend")}
  /\ UNCHANGED << resendCooldown, authFlow, reloadTimer >>
  /\ PanelCommit(cooldownInterval)

\* handleBackToSignup
PressBackToSignup ==
  /\ panelView.authFlow = "verifying"
  /\ ~panelView.isLoading
  /\ authFlow' = "signup"
  /\ resendCooldown' = 0
  /\ UNCHANGED << panelLoading, authReqs, reloadTimer >>
  /\ PanelCommit(FALSE)

\* the interval of the cooldown effect fires
CooldownTick ==
  /\ cooldownInterval
  /\ resendCooldown' = IF resendCooldown <= 1 THEN 0 ELSE resendCooldown - 1
  /\ cooldownInterval' = ~(resendCooldown <= 1)
  /\ UNCHANGED << authFlow, panelLoading, panelView, authReqs, reloadTimer >>

\* window.location.reload(): the page starts again with the user logged in,
\* and the panel shows the account
PageReload ==
  /\ reloadTimer
  /\ resendCooldown' = 0
  /\ authFlow' = "login"
  /\ panelLoading' = FALSE
  /\ panelView' = PanelSnapshot(0, "account", FALSE)
  /\ cooldownInterval' = FALSE
  /\ authReqs' = {}
  /\ reloadTimer' = FALSE

PanelNext ==
  \/ PanelRender
       /\ UNCHANGED << chatVars, scrollVars, worldsVars >>
  \/ ToggleMode
       /\ UNCHANGED << chatVars, scrollVars, worldsVars >>
  \/ \E flow \in {"login", "signup", "verifying"} :
       PressSubmit(flow, IF flow = "verifying" THEN "verify" ELSE flow)
       /\ UNCHANGED << chatVars, scrollVars, worldsVars >>
  \/ \E req \in authReqs, ok \in BOOLEAN : SubmitResolve(req, ok)
       /\ UNCHANGED << chatVars, scrollVars, worldsVars >>
  \/ \E req \in authReqs, ok \in BOOLEAN : SignupResolve(req, ok)
       /\ UNCHANGED << chatVars, scrollVars, worldsVars >>
  \/ \E req \in authReqs, ok \in BOOLEAN, secs \in ReturnedCooldowns :
       SendCodeResolve(req, ok, secs)
       /\ UNCHANGED << chatVars, scrollVars, worldsVars >>
  \/ PressResend
       /\ UNCHANGED << chatVars, scrollVars, worldsVars >>
  \/ PressBackToSignup
       /\ UNCHANGED << chatVars, scrollVars, worldsVars >>
  \/ CooldownTick
       /\ UNCHANGED << chatVars, scrollVars, worldsVars >>
  \/ PageReload
       /\ UNCHANGED << chatVars, scrollVars, worldsVars >>

PanelSpec == PanelInit /\ [][PanelNext]_vars

\* the interval of the cooldown fires every second as long as it is set, and
\* React commits a scheduled state update
FairPanelSpec ==
  /\ PanelSpec
  /\ WF_vars(PanelRender /\ UNCHANGED << chatVars, scrollVars, worldsVars >>)
  /\ WF_vars(CooldownTick /\ UNCHANGED << chatVars, scrollVars, worldsVars >>)

\* ------------------------------------------------------------ properties

Last(s) == s[Len(s)]

\* the turn b duplicates the turn a: both carry the same remote id
SameRemoteId(a, b) == a.azureMessageId # NoId /\ a.azureMessageId = b.azureMessageId

\* the turns of a page that the store does not hold yet, by remote id
NotYetStored(store, page) ==
  {m \in Range(page) : \A p \in Range(store) : ~SameRemoteId(p, m)}

\* C1: whatever the interleaving of optimistic appends, reply or error
\* appends and older-page merges, each of them leaves in the store every turn
\* that was there and adds its own turns, except the turns of a page whose
\* remote id the store already holds: the store is the union of what was
\* appended and merged, duplicates removed.
C1_ChronologicalMerge ==
  [][ /\ \A input \in Inputs :
           (MaySend(input) /\ PressSend(input)) =>
             Range(messages') =
               Range(messages) \cup {Message("user", Trim(input), now', NoId)}
      /\ \A req \in chatReqs :
           ChatResolve(req) =>
             /\ Range(messages) \subseteq Range(messages')
             /\ Len(messages') = Len(messages) + 1
      /\ \A req \in olderReqs :
           (OlderResolve(req) /\ OlderResolveOk(req)) =>
             Range(messages') =
               Range(messages) \cup NotYetStored(messages, OlderMessages(req))
    ]_vars

\* C2: merging the page of an older-page load into the store twice gives the
\* store that merging it once gives, turn for turn.
C2_MergeOlderIdempotent ==
  \A req \in olderReqs :
    \A store \in {messages, view.messages} :
      LET page == OlderMessages(req)
      IN MergeOlder(MergeOlder(store, page), page) = MergeOlder(store, page)

\* an older page is in flight that brings turns the store does not hold
C2_Witness ==
  \E req \in olderReqs :
    /\ messages # << >>
    /\ MergeOlder(messages, OlderMessages(req)) # messages

\* C3: at most one send is in flight, and while one is, the guard of the input
\* refuses every text: no second call, no second optimistic user turn.
C3_SingleFlightSend ==
  /\ Cardinality(chatReqs) <= 1
  /\ chatReqs # {} => \A input \in Inputs : ~MaySend(input)

\* a send is in flight and the user may press send again
C3_Witness ==
  /\ chatReqs # {}
  /\ UserActions < MaxUserActions
  /\ \E input \in Inputs : Trim(input) # NoText

\* C4: the result of a history load (first page or older page) that was
\* started for a world which is no longer the active one is not applied:
\* the store, the continuation token and hasMoreMessages stay as they are.
C4_StaleLoadDiscarded ==
  [][ /\ \A req \in histReqs :
           (req.world # selectedWorldId /\ HistResolve(req)) =>
             UNCHANGED << messages, continuationToken, hasMoreMessages >>
      /\ \A req \in olderReqs :
           (req.world # selectedWorldId /\ OlderResolve(req)) =>
             UNCHANGED << messages, continuationToken, hasMoreMessages >>
    ]_vars

\* C5: when the active world has changed since a send was issued, the
\* continuation of that send adds no turn to the store and the history
\* reload it schedules for the world it was sent in changes neither the
\* store nor the pagination state.
C5_StaleSendDiscarded ==
  [][ /\ \A req \in chatReqs :
           (req.world # selectedWorldId /\ ChatResolve(req)) =>
             messages' = messages
      /\ \A req \in histReqs :
           (req.caller = "send" /\ req.world # selectedWorldId /\ HistResolve(req)) =>
             UNCHANGED << messages, continuationToken, hasMoreMessages >>
    ]_vars

ApologyTurn(m) == m.role = "assistant" /\ m.content = Apology

\* C6: when a send fails, the store is afterwards the list the send was
\* issued on (every earlier turn, then the user turn) followed by one
\* assistant turn with the apology text: two new turns, in that order.
C6_FailureFallback ==
  [][ \A req \in chatReqs :
        (ChatResolve(req) /\ ChatResolveError(req)) =>
          /\ Len(messages') = Len(req.updatedMessages) + 1
          /\ SubSeq(messages', 1, Len(req.updatedMessages)) = req.updatedMessages
          /\ ApologyTurn(Last(messages'))
    ]_vars

\* C7: a 2xx answer whose body is an error payload (ok false, no reply
\* field) ends the send with the apology turn.
C7_ErrorPayloadApology ==
  [][ \A req \in chatReqs : \A body \in ChatBodies :
        (~body.ok /\ ChatResolve(req) /\ ChatResolveOk(req, body)) =>
          ApologyTurn(Last(messages'))
    ]_vars

Ascending(s) ==
  \A i, j \in 1..Len(s) : i < j => s[i].timestamp <= s[j].timestamp

\* the turns of s that are in the set keep, keeping their order
Kept(s, keep) == SelectSeq(s, LAMBDA m : m \in keep)

\* C8: the turns of the store are in ascending timestamp order in every
\* state, and a step that keeps the turns of the store (an append, a merge)
\* leaves them in the order they had: turns with equal timestamps are not
\* swapped, and the turns a merge adds stay in the order of their page.
C8_ChronologicalOrder ==
  /\ [](Ascending(messages) /\ Ascending(view.messages))
  /\ [][ /\ Range(messages) \subseteq Range(messages') =>
              Kept(messages', Range(messages)) = messages
         /\ \A req \in olderReqs :
              (OlderResolve(req) /\ OlderResolveOk(req)) =>
                Kept(messages', Range(messages') \ Range(messages))
                  = Kept(OlderMessages(req), Range(messages') \ Range(messages))
       ]_vars

\* a merged older page whose first turn has the timestamp of a turn that was
\* in the store before, below a turn appended by a send
C8_Witness ==
  /\ Len(messages) >= 4
  /\ messages[1].timestamp = messages[3].timestamp
  /\ messages[1].azureMessageId # messages[3].azureMessageId
  /\ messages[3].timestamp < Last(messages).timestamp
  /\ Last(messages).azureMessageId = NoId
  /\ continuationToken = NoToken
  /\ selectedWorldId = "A"

\* C9: as long as a send is in flight, the user turn it appended is in the
\* store.
C9_UserTurnStaysVisible ==
  \A req \in chatReqs : Last(req.updatedMessages) \in Range(messages)

\* C10: when a send completes, the last turn of the store is its assistant
\* (or error) turn and the turn before it is the user turn of that send.
C10_UserThenAssistant ==
  [][ \A req \in chatReqs :
        ChatResolve(req) =>
          /\ Len(messages') >= 2
          /\ Last(messages').role = "assistant"
          /\ messages'[Len(messages') - 1] = Last(req.updatedMessages)
    ]_vars

\* C11: a world selection makes the selected context the active one, resets
\* the continuation token, leaves in the store no turn of the context that
\* was active before (an empty store for a world, whose history is then
\* loaded; the global history for the default context) and, for a world,
\* starts a load of its first page.
C11_SwitchDiscardsState ==
  [][ \A value \in Worlds \cup {NoWorld} :
        SelectWorld(value) =>
          /\ selectedWorldId' = value
          /\ continuationToken' = NoToken
          /\ messages' = IF value = NoWorld THEN InitialMessages ELSE << >>
          /\ value # NoWorld =>
               \E req \in histReqs' \ histReqs : req.world = value
    ]_vars

\* C12: while a send is in flight the active context does not change.
C12_NoSwitchWhileSending ==
  [][ chatReqs # {} => selectedWorldId' = selectedWorldId ]_vars

\* the request a send step has just issued
NewChatReqs == chatReqs' \ chatReqs

\* C13: the settings a send carries are those the selected world has in the
\* worlds list of the last render before the send (none when the default
\* context is active or the world is not listed); a request in flight is
\* not changed by any later step, a refetch of the worlds list included.
C13_SettingsAtSend ==
  [][ /\ \A input \in Inputs :
           (MaySend(input) /\ PressSend(input)) =>
             \E req \in NewChatReqs :
               req.worldSettings =
                 IF selectedWorldId = NoWorld THEN NoWorldSettings
                 ELSE IF view.worlds[selectedWorldId] = NoSettings THEN NoWorldSettings
                 ELSE [worldId |-> selectedWorldId,
                       settings |-> view.worlds[selectedWorldId]]
      /\ (\A input \in Inputs : ~(MaySend(input) /\ PressSend(input))) =>
           chatReqs' \subseteq chatReqs
    ]_vars

\* a send in flight carries the settings of an edit that was made after the
\* session started
C13_Witness ==
  \E req \in chatReqs : req.worldSettings.settings = EditedSettings

\* C13 as stated: the settings the next send will carry change only when a
\* world is selected.
C13_FrozenAtSelection ==
  [][ WorldSettings' # WorldSettings => selectedWorldId' # selectedWorldId ]_vars

\* C14: a send issued while a world is active carries that world's id and
\* settings and goes on with action "addworldchat"; a send issued in the
\* default context carries no settings and no action.
C14_SettingsIffWorld ==
  \A req \in chatReqs :
    IF req.world # NoWorld
    THEN /\ req.worldSettings.worldId = req.world
         /\ req.worldSettings.settings # NoSettings
         /\ req.requestBody.action = "addworldchat"
         /\ req.requestBody.worldId = req.world
    ELSE /\ req.worldSettings = NoWorldSettings
         /\ req.requestBody.action = NoAction

\* C15: the history of a request has at most HistoryWindow entries, each
\* with the fields role and content only, and they are the last
\* min(HistoryWindow, n) turns of the store as the send leaves it (the new
\* user turn is the last of them), in store order.
C15_HistoryWindow ==
  [][ \A input \in Inputs :
        (MaySend(input) /\ PressSend(input)) =>
          \E req \in NewChatReqs :
            LET n == Len(messages')
                k == Min(HistoryWindow, n)
            IN /\ Len(req.history) = k
               /\ req.requestBody.history = req.history
               /\ \A i \in 1..k :
                    /\ DOMAIN req.history[i] = {"role", "content"}
                    /\ req.history[i].role = messages'[n - k + i].role
                    /\ req.history[i].content = messages'[n - k + i].content
    ]_vars

\* a send in flight was issued on a store of more than HistoryWindow turns
C15_Witness ==
  \E req \in chatReqs : Len(req.updatedMessages) > HistoryWindow

\* C16: pressing send on an empty or whitespace-only text changes nothing:
\* same store, isLoading not set, no request issued.
C16_BlankSendNoOp ==
  [][ \A input \in Inputs :
        (TrimEnd(TrimStart(input)) = NoText /\ PressSend(input)) =>
          UNCHANGED << messages, isLoading, chatReqs, sent, view >>
    ]_vars

\* after a send has completed the input is enabled again and the user may
\* press send on a blank text
C16_Witness ==
  /\ sent > 0
  /\ ~view.isLoading
  /\ UserActions < MaxUserActions
  /\ \E input \in Inputs : input # NoText /\ TrimEnd(TrimStart(input)) = NoText

\* C17: isLoading is set exactly while the call of a send is outstanding:
\* the step that ends the call, on success or on failure, clears it, and
\* nothing else does; once no call is outstanding the input is enabled again
\* (the cleared flag is rendered).
C17_ReturnsToIdle ==
  /\ [](isLoading <=> chatReqs # {})
  /\ (chatReqs = {}) ~> (~isLoading /\ ~view.isLoading)

\* a send has completed and the input is enabled again
C17_Witness ==
  /\ sent > 0
  /\ chatReqs = {}
  /\ ~isLoading
  /\ ~view.isLoading

\* what the user reads of a turn
TurnKey(m) == << m.role, m.content >>

\* the record with the remote id of the turn m is not held by the remote any more
DeletedRemotely(m, worldId) ==
  /\ m.azureMessageId # NoId
  /\ \A i \in 1..Len(remote'[worldId]) : remote'[worldId][i].id # m.azureMessageId

\* C18: a turn of the store (its role and text) is no longer in the store
\* after a step only if the step is a world selection, the arrival of the
\* first page the selection of the active world asked for, or the arrival
\* of the page a delete asked for when the remote no longer holds the
\* record of the turn.
C18_TurnsStay ==
  [][ \A m \in Range(messages) :
        (\A p \in Range(messages') : TurnKey(p) # TurnKey(m)) =>
          \/ selectedWorldId' # selectedWorldId
          \/ \E req \in histReqs :
               /\ HistResolve(req)
               /\ req.world = selectedWorldId
               /\ \/ req.caller = "effect"
                  \/ req.caller = "delete" /\ DeletedRemotely(m, req.world)
    ]_vars

\* C19: a delete request is only in flight for a remote id and a world; the
\* step in which the delete comes back done leaves no turn with that remote
\* id in the store, and the step in which it comes back failed leaves the
\* store as it is.
C19_DeleteRemovesPair ==
  /\ [](\A req \in deleteReqs : req.world # NoWorld /\ req.messageId # NoId)
  /\ [][ \A req \in deleteReqs :
           /\ (DeleteResolve(req) /\ DeleteResolveDeleted(req)) =>
                \A m \in Range(messages') : m.azureMessageId # req.messageId
           /\ (DeleteResolve(req) /\ DeleteResolveError(req)) =>
                messages' = messages
       ]_vars

\* the item in the naming input / aiReply / createdUtc
CanonicalItem(item) ==
  Item(item.id,
       IF item.createdUtc # 0 THEN item.createdUtc ELSE item.CreatedUtc,
       IF item.text # NoText THEN item.text ELSE item.input,
       IF item.ai # NoText THEN item.ai ELSE item.aiReply)

CanonicalItems(items) == [i \in 1..Len(items) |-> CanonicalItem(items[i])]

\* C20: the turns a history load puts into the store are the turns it would
\* put there if every item of the world were in the naming input / aiReply /
\* createdUtc: same roles, texts, timestamps and order.
C20_KeyNamingTolerated ==
  [][ \A req \in histReqs :
        (HistResolve(req) /\ HistResolveOk(req)) =>
          messages' =
            SortByTimestamp(ItemsToMessages(
              WorldHistoryBody(CanonicalItems(remote[req.world]), NoToken).items, now))
    ]_vars

\* C22: every older-page request in flight carries a continuation token, and
\* at most one older-page request is in flight.
C22_SingleOlderLoad ==
  /\ \A req \in olderReqs : req.token # NoToken
  /\ Cardinality(olderReqs) <= 1

\* C23: the step in which an older-page load comes back failed leaves the
\* store, the continuation token and hasMoreMessages as they are and clears
\* isLoadingMore; when the world and the token are still those of the
\* request, the guard of the scroll handler holds again on the state it
\* leaves, for the same token.
C23_FailedOlderLoad ==
  [][ \A req \in olderReqs :
        (OlderResolve(req) /\ OlderResolveError(req)) =>
          /\ UNCHANGED << messages, continuationToken, hasMoreMessages >>
          /\ ~isLoadingMore'
          /\ (/\ req.world = selectedWorldId
              /\ req.token = continuationToken
              /\ hasMoreMessages
              /\ ~isInitialLoad) =>
               /\ continuationToken' = req.token
               /\ hasMoreMessages' /\ ~isLoadingMore' /\ ~isInitialLoad'
    ]_vars

\* an older-page load that was rendered as in flight is over and has
\* brought nothing: the token is the one it was issued with
C23_Witness ==
  /\ selectedWorldId # NoWorld
  /\ olderReqs = {}
  /\ view.isLoadingMore /\ ~isLoadingMore
  /\ continuationToken # NoToken
  /\ continuationToken = view.continuationToken
  /\ messages = view.messages
  /\ hasMoreMessages /\ ~isInitialLoad

\* the turns of the page an older-page request gets from the history hist
\* at the time clock
PageOf(hist, req, clock) ==
  SortByTimestamp(ItemsToMessages(WorldHistoryBody(hist, req.token).items, clock))

\* the turn the continuation of a send appends at the time clock
ReplyTurns(clock) ==
  { Message("assistant", content, clock + 1, NoId) :
      content \in {ReplyContent(body) : body \in ChatBodies} \cup {Apology} }

\* C24: with a send and an older-page load in flight together, appending
\* the turn of the send and then merging the page gives the store that
\* merging the page and then appending the turn gives.
C24_AppendMergeCommute ==
  \A send \in chatReqs : \A older \in olderReqs : \A turn \in ReplyTurns(now) :
    MergeOlder(Append(messages, turn), PageOf(remote[older.world], older, now + 1))
      = Append(MergeOlder(messages, PageOf(remote[older.world], older, now)), turn)

\* the positions of the history hist whose item is displayed in the store:
\* a turn carries the item's remote id, or is the user turn with its text
ShownItems(store, hist) ==
  { i \in 1..Len(hist) :
      \E m \in Range(store) :
        \/ m.azureMessageId # NoId /\ m.azureMessageId = hist[i].id
        \/ m.role = "user" /\ m.content = TransformItem(hist[i]).input }

\* C27: while a world is active and no first-page load is in flight, the
\* items of its remote history that the store displays are consecutive
\* items of that history: between two displayed items none is missing.
C27_ContiguousRange ==
  (selectedWorldId # NoWorld /\ histReqs = {}) =>
    LET hist == remote[selectedWorldId]
        shown == ShownItems(messages, hist)
    IN \A i, k \in shown : \A j \in 1..Len(hist) : (i < j /\ j < k) => j \in shown

\* C28: every older-page request in flight asks for the history of a world
\* with a continuation token that was issued for that world.
C28_TokenOfSameWorld ==
  \A req \in olderReqs : TokenWorld(req.token) = req.world

\* an older page has been merged since the last render: the store holds the
\* turns of the last render and more, and the token has moved on
MergedSinceRender ==
  /\ view.continuationToken # NoToken
  /\ continuationToken # view.continuationToken
  /\ messages # view.messages
  /\ Range(view.messages) \subseteq Range(messages)

\* C29: a send and an older-page merge do not undo each other: a merge that
\* lands while a send is in flight leaves every turn of its page in the
\* store, and a send pressed after a merge leaves in the store every turn
\* the merge put there.
C29_PageSurvivesSend ==
  [][ /\ \A req \in olderReqs :
           (chatReqs # {} /\ OlderResolve(req) /\ OlderResolveOk(req)) =>
             \A m \in Range(OlderMessages(req)) :
               \E p \in Range(messages') : TurnKey(p) = TurnKey(m)
      /\ \A input \in Inputs :
           (MergedSinceRender /\ MaySend(input) /\ PressSend(input)) =>
             Range(messages) \subseteq Range(messages')
    ]_vars

\* C30: isInitialLoad is set as long as a first-page load or reload of the
\* active world is in flight, and no older-page request is issued while one
\* is.
C30_NoOlderDuringInitialLoad ==
  /\ []((selectedWorldId # NoWorld /\ histReqs # {}) => isInitialLoad)
  /\ [][ (histReqs # {} /\ selectedWorldId # NoWorld) => olderReqs' \subseteq olderReqs ]_vars

\* C21: when the timer of an older-page load fires, the container is left
\* at newScrollHeight - oldScrollHeight + oldScrollTop, the heights and the
\* offset being the ones the load saved and the one the list has now; for
\* oldScrollHeight = 1000, oldScrollTop = 50 and newScrollHeight = 1400 that
\* is 450.
C21_RestoredOffset ==
  [][ \A t \in scrollTimers : RestoreScroll(t) =>
        /\ scrollTop' = scrollHeight - t.oldScrollHeight + t.oldScrollTop
        /\ (t.oldScrollHeight = 1000 /\ t.oldScrollTop = 50 /\ scrollHeight = 1400)
             => scrollTop' = 450
    ]_vars

\* the timer of a load that saved 1000 and 50 has fired on a list of 1400
C21_Witness ==
  /\ prepends = 1
  /\ scrollReqs = {}
  /\ scrollTimers = {}
  /\ pendingHeight = 0
  /\ scrollHeight = 1400
  /\ scrollTop = 450

\* C25: a failed world update puts the cached list back to the value it
\* had just before the optimistic write, and that write is all it undoes:
\* the cache still holds what the update had written, not a list fetched
\* since; a successful update leaves the edited world with the submitted
\* values.
C25_RollbackExact ==
  [][ \A req \in mutations :
        /\ UpdateError(req) =>
             /\ worldsCache' = req.previousWorlds
             /\ worldsCache = OptimisticWorlds(req.previousWorlds, req.id, req.data)
        /\ (\E stored \in BOOLEAN : UpdateSuccess(req, stored)) =>
             worldsCache'[req.id] = req.data
    ]_vars

\* a send-code call that handleResendCode has just issued
ResendIssued ==
  \E req \in authReqs' \ authReqs : req.kind = "sendcode" /\ req.caller = "resend"

\* C26: the cooldown is never below 0; a successful send-code sets it to the
\* returned value, or to 60 when none is returned; a tick lowers it by one,
\* not below 0; a resend issues a call only when the cooldown is 0; when the
\* verification form shows a cooldown of 0 and nothing is loading, a resend
\* can be made; and a cooldown above 0 reaches 0.
C26_ResendCooldown ==
  /\ [](resendCooldown >= 0)
  /\ []((authFlow = "verifying" /\ ~panelLoading /\ resendCooldown = 0
           /\ panelView = PanelCurrent) => ENABLED PressResend)
  /\ [][ /\ \A req \in authReqs : \A secs \in ReturnedCooldowns :
              SendCodeResolve(req, TRUE, secs) =>
                resendCooldown' = IF secs > 0 THEN secs ELSE DefaultCooldown
         /\ CooldownTick =>
              resendCooldown' = IF resendCooldown > 0 THEN resendCooldown - 1 ELSE 0
         /\ ResendIssued => resendCooldown = 0
       ]_vars
  /\ (resendCooldown > 0) ~> (resendCooldown = 0)

\* a send-code without a returned value has set the cooldown to 60, one tick
\* has passed, and the resend button shows the cooldown
C26_Witness ==
  /\ authFlow = "verifying"
  /\ resendCooldown = DefaultCooldown - 1
  /\ panelView = PanelCurrent
  /\ cooldownInterval
  /\ ~MayResend

====
